---- MODULE Spec2Model ----
(***************************************************************************)
(* Model of specmatchemp/match.py: the Match class (one reference          *)
(* spectrum, rotational broadening fitted) and its subclass MatchLincomb   *)
(* (linear combination of pre-broadened reference spectra).                *)
(*                                                                         *)
(* One instance is modelled.  `self` holds the instance's attributes;      *)
(* `self.attrs` is the set of attribute names that exist (Python's         *)
(* instance dictionary), so reading an attribute that no method has set    *)
(* yet is an AttributeError.  Floating point numbers are modelled as       *)
(* integers (quotients are truncated by \div); lmfit.Parameters objects    *)
(* are sets of entries with unique names.                                  *)
(***************************************************************************)
EXTENDS Integers, Sequences, FiniteSets, TLC

VARIABLES
    self,   \* the instance's attributes
    pc,     \* where the caller is: "idle" between calls, "fit" inside best_fit
    ret,    \* the most recent call that returned: method, arguments, outcome
    run,    \* the locals of the best_fit call in progress or just returned
    hist    \* which methods have been called on the instance so far

vars == <<self, pc, ret, run, hist>>

(***************************************************************************)
(* Bounds of the model.                                                    *)
(***************************************************************************)
MaxLen == 9        \* longest wavelength grid
MaxVsini == 1      \* largest vsini value the caller and the optimizer try
MaxRefs == 2       \* most reference spectra of a MatchLincomb

(***************************************************************************)
(* Program constants.                                                      *)
(***************************************************************************)
num_knots == 5
SPEED_OF_LIGHT == 299792
KernelSize == 151
WidthInv == 1000          \* 1/WIDTH, WIDTH = 1e-3
VsiniInit == 1
VsiniMin == 0
VsiniMax == 10

(***************************************************************************)
(* Arithmetic helpers.                                                     *)
(***************************************************************************)
RECURSIVE SumRange(_, _, _)
SumRange(s, lo, hi) ==
    IF lo > hi THEN 0
    ELSE IF lo = hi THEN s[lo]
    ELSE LET mid == (lo + hi) \div 2 IN SumRange(s, lo, mid) + SumRange(s, mid + 1, hi)

\* np.sum
SumSeq(s) == SumRange(s, 1, Len(s))

RECURSIVE SumOver(_, _)
SumOver(f, S) ==
    IF S = {} THEN 0
    ELSE LET x == CHOOSE y \in S : TRUE IN f[x] + SumOver(f, S \ {x})

Abs(x) == IF x < 0 THEN -x ELSE x

\* np.sqrt, truncated to an integer
Sqrt(x) == CHOOSE r \in 0..x : r * r <= x /\ (r + 1) * (r + 1) > x

RECURSIVE Gcd(_, _)
Gcd(a, b) == IF b = 0 THEN a ELSE Gcd(b, a % b)

RECURSIVE LcmUpTo(_)
LcmUpTo(n) == IF n <= 1 THEN 1 ELSE LET l == LcmUpTo(n - 1) IN (l * n) \div Gcd(l, n)

\* Coefficients are stored in units of 1/CoeffScale, so that 1/num_refs is exact.
CoeffScale == LcmUpTo(MaxRefs)

(***************************************************************************)
(* Values a method returns: a scalar, an array, NaN or None.               *)
(***************************************************************************)
Scalar(x) == [shape |-> "scalar", data |-> <<x>>]
Array(s) == [shape |-> "array", data |-> s]
NaN == [shape |-> "nan", data |-> <<>>]
None == [shape |-> "none", data |-> <<>>]

Ok(op, v) == [op |-> op, args |-> {}, status |-> "ok", exc |-> "", val |-> v]

Raise(op, e) == [op |-> op, args |-> {}, status |-> "raise", exc |-> e, val |-> None]

(***************************************************************************)
(* lmfit.Parameters: a set of entries, one per name.                       *)
(***************************************************************************)
NoParams == {}

Names(P) == {e.name : e \in P}

Get(P, n) == CHOOSE e \in P : e.name = n

\* Parameters.add: replaces an entry of the same name
Add(P, n, v, vary, bounded, lo, hi) ==
    {e \in P : e.name # n} \cup
    {[name |-> n, value |-> v, vary |-> vary, bounded |-> bounded, min |-> lo, max |-> hi]}

SetValue(P, n, v) == {IF e.name = n THEN [e EXCEPT !.value = v] ELSE e : e \in P}

CoeffNames == <<"coeff_0", "coeff_1", "coeff_2", "coeff_3">>

\* 'coeff_{0:d}'.format(i)
CoeffName(i) == CoeffNames[i + 1]

(***************************************************************************)
(* numpy arrays: sequences, indexed from 0 in the source.                  *)
(***************************************************************************)
At(s, k) == s[k + 1]

\* the array with the elements of f, a function on 1..n
Arr(f) == SubSeq(f, 1, Len(f))

Mul(a, b) == Arr([i \in 1..Len(a) |-> a[i] * b[i]])

Sub(a, b) == Arr([i \in 1..Len(a) |-> a[i] - b[i]])

Div(a, b) == Arr([i \in 1..Len(a) |-> a[i] \div b[i]])

Squares(a) == Arr([i \in 1..Len(a) |-> a[i] * a[i]])

\* two one-dimensional arrays combine elementwise only when their lengths agree
\* (an array of length 1 would broadcast; the model's arrays are longer)
SameShape(a, b) == Len(a) = Len(b)

(***************************************************************************)
(* External numerical routines.                                            *)
(***************************************************************************)
\* specmatchemp.kernels.rot(n, dv, vsini): a kernel of n points spaced dv apart in
\* velocity, symmetric about its centre, of unit sum, which is the delta kernel at
\* vsini = 0.  Its weights are weight[k]/norm at the offsets k in -half..half from
\* the centre and zero at the other points.
rot(n, dv, vsini) ==
    LET c == (n - 1) \div 2
        reach == vsini \div dv
        half == IF reach < c THEN reach ELSE c
    IN  [size |-> n, half |-> half, weight |-> [k \in (-half)..half |-> 1],
         norm |-> 2 * half + 1]

\* index of the sample that position e (0-based, possibly outside 0..n-1) reads
\* under scipy.ndimage's default boundary mode 'reflect'
Reflect(e, n) == LET m == e % (2 * n) IN IF m < n THEN m ELSE 2 * n - 1 - m

\* scipy.ndimage.convolve1d(spec, kernel): output of the length of spec
convolve1d(spec, kernel) ==
    LET m == Len(spec)
        offsets == (-kernel.half)..kernel.half
    IN  Arr([i \in 1..m |->
            SumOver([k \in offsets |-> kernel.weight[k] * At(spec, Reflect((i - 1) - k, m))],
                    offsets) \div kernel.norm])

SplineOrder == 3

\* LSQUnivariateSpline(x, y, t) accepts its input when x and y have one length, there
\* are enough samples for the knots, and the interior knots ascend strictly inside
\* the interval of x
SplineInputOk(x, y, t) ==
    /\ Len(x) = Len(y)
    /\ Len(x) >= Len(t) + SplineOrder + 1
    /\ x[1] < t[1]
    /\ t[Len(t)] < x[Len(x)]
    /\ \A j \in 1..(Len(t) - 1) : t[j] < t[j + 1]

\* the fitted spline evaluated at x: the least-squares fit on each knot interval
\* (modelled by the interval's mean)
SplineEval(x, y, t) ==
    LET seg == Arr([i \in 1..Len(x) |-> Cardinality({j \in 1..Len(t) : t[j] <= x[i]})])
        members(g) == {i \in 1..Len(x) : seg[i] = g}
        mean == Arr([g \in 1..(Len(t) + 1) |->
                        LET ms == members(g - 1)
                        IN  IF ms = {} THEN 0 ELSE SumOver(y, ms) \div Cardinality(ms)])
    IN  Arr([i \in 1..Len(x) |-> mean[seg[i] + 1]])

(***************************************************************************)
(* Match.broaden                                                           *)
(***************************************************************************)
broaden(o, vsini, spec) ==
    LET dv == ((At(o.w, 1) - At(o.w, 0)) * SPEED_OF_LIGHT) \div At(o.w, 0)
        n == KernelSize
        kernel == rot(n, dv, vsini)
    IN  convolve1d(spec, kernel)

(***************************************************************************)
(* Spline knots, as both constructors compute them.                        *)
(***************************************************************************)
\* knots taken from range(0, num_knots): the first one is the first grid sample
Knots_from_zero(w) ==
    LET interval == Len(w) \div (num_knots + 1)
    IN  [i \in 1..num_knots |-> At(w, interval * (i - 1))]

Knots(w) ==
    LET interval == Len(w) \div (num_knots + 1)
    IN  [i \in 1..num_knots |-> At(w, interval * i)]

(***************************************************************************)
(* Constructors.  s_targ and s_ref are <<flux, uncertainty>>; s_refs is a  *)
(* sequence of such pairs and vsini a sequence of one velocity for each.   *)
(* Neither constructor compares a length with the grid's.                  *)
(***************************************************************************)
\* no instance: what a caller holds when a constructor has raised
NoObject ==
    [kind |-> "none", attrs |-> {}, w |-> <<>>, s_targ |-> <<>>, serr_targ |-> <<>>,
     s_ref |-> <<>>, serr_ref |-> <<>>, num_refs |-> 0, s_refs |-> <<>>,
     best_params |-> NoParams, best_chisq |-> NaN, mode |-> "", opt |-> "",
     knot_x |-> <<>>, s_mod |-> <<>>, serr_mod |-> <<>>, spl |-> <<>>]

\* the attributes Match.__init__ assigns
Match_attributes(wav, s_targ, s_ref, mode, opt) ==
    [kind |-> "Match",
     attrs |-> {"w", "s_targ", "serr_targ", "s_ref", "serr_ref", "best_params",
                "best_chisq", "mode", "opt", "knot_x"},
     w |-> wav,
     s_targ |-> s_targ[1],
     serr_targ |-> s_targ[2],
     s_ref |-> s_ref[1],
     serr_ref |-> s_ref[2],
     num_refs |-> 0,
     s_refs |-> <<>>,
     best_params |-> NoParams,
     best_chisq |-> NaN,
     mode |-> mode,
     opt |-> opt,
     knot_x |-> Knots(wav),
     s_mod |-> <<>>,
     serr_mod |-> <<>>,
     spl |-> <<>>]

\* the attributes MatchLincomb.__init__ assigns
MatchLincomb_attributes(wav, s_targ, s_refs, vsini, mode, opt) ==
    [kind |-> "MatchLincomb",
     attrs |-> {"w", "s_targ", "serr_targ", "num_refs", "s_refs", "best_params",
                "best_chisq", "mode", "opt", "knot_x"},
     w |-> wav,
     s_targ |-> s_targ[1],
     serr_targ |-> s_targ[2],
     s_ref |-> <<>>,
     serr_ref |-> <<>>,
     num_refs |-> Len(s_refs),
     s_refs |-> [i \in 1..Len(s_refs) |->
                    <<broaden([w |-> wav], vsini[i], s_refs[i][1]),
                      broaden([w |-> wav], vsini[i], s_refs[i][2])>>],
     best_params |-> NoParams,
     best_chisq |-> NaN,
     mode |-> mode,
     opt |-> opt,
     knot_x |-> Knots(wav),
     s_mod |-> <<>>,
     serr_mod |-> <<>>,
     spl |-> <<>>]

\* a constructor that compared the lengths of its arguments with the grid's
Match_init_checked(wav, s_targ, s_ref, mode, opt) ==
    IF Len(s_targ[1]) # Len(wav) \/ Len(s_ref[1]) # Len(wav)
    THEN [ret |-> Raise("__init__", "ShapeMismatch"), self |-> NoObject]
    ELSE [ret |-> Ok("__init__", None),
          self |-> Match_attributes(wav, s_targ, s_ref, mode, opt)]

Match_init(wav, s_targ, s_ref, mode, opt) ==
    [ret |-> Ok("__init__", None), self |-> Match_attributes(wav, s_targ, s_ref, mode, opt)]

MatchLincomb_init(wav, s_targ, s_refs, vsini, mode, opt) ==
    [ret |-> Ok("__init__", None),
     self |-> MatchLincomb_attributes(wav, s_targ, s_refs, vsini, mode, opt)]

(***************************************************************************)
(* create_model.  Each returns [self |-> the instance afterwards,          *)
(* exc |-> the exception raised, "" for none].  An exception leaves the    *)
(* assignments made before it in place.  params holds every name the       *)
(* method reads.                                                           *)
(***************************************************************************)
\* the spline fit and the scaling of the model that end both create_model methods
FitContinuum(o) ==
    IF ~SameShape(o.s_targ, o.s_mod) THEN [self |-> o, exc |-> "ValueError"]
    ELSE LET y == Div(o.s_targ, o.s_mod)
         IN  IF ~SplineInputOk(o.w, y, o.knot_x) THEN [self |-> o, exc |-> "ValueError"]
             ELSE LET spl == SplineEval(o.w, y, o.knot_x)
                  IN  [self |-> [o EXCEPT !.attrs = @ \cup {"spl"},
                                          !.spl = spl,
                                          !.s_mod = Mul(o.s_mod, spl),
                                          !.serr_mod = Mul(o.serr_mod, spl)],
                       exc |-> ""]

\* a create_model that keeps a model already stored instead of starting from the
\* reference spectrum
Match_create_model_stale(o, params) ==
    LET o1 == IF "s_mod" \in o.attrs THEN o
              ELSE [o EXCEPT !.attrs = @ \cup {"s_mod", "serr_mod"},
                             !.s_mod = o.s_ref,
                             !.serr_mod = o.serr_ref]
        vsini == Get(params, "vsini").value
        o2 == [o1 EXCEPT !.s_mod = broaden(o1, vsini, o1.s_mod),
                         !.serr_mod = broaden(o1, vsini, o1.serr_mod)]
    IN  FitContinuum(o2)

Match_create_model(o, params) ==
    LET o1 == [o EXCEPT !.attrs = @ \cup {"s_mod", "serr_mod"},
                        !.s_mod = o.s_ref,
                        !.serr_mod = o.serr_ref]
        vsini == Get(params, "vsini").value
        o2 == [o1 EXCEPT !.s_mod = broaden(o1, vsini, o1.s_mod),
                         !.serr_mod = broaden(o1, vsini, o1.serr_mod)]
    IN  FitContinuum(o2)

\* the weighted sum of the first n reference arrays (which = 1: flux, 2: uncertainty)
RECURSIVE WeightedSum(_, _, _, _)
WeightedSum(o, params, which, n) ==
    IF n = 0 THEN [i \in 1..Len(o.w) |-> 0]
    ELSE LET acc == WeightedSum(o, params, which, n - 1)
             c == Get(params, CoeffName(n - 1)).value
             r == o.s_refs[n][which]
         IN  Arr([i \in 1..Len(acc) |-> acc[i] + (r[i] * c) \div CoeffScale])

MatchLincomb_create_model(o, params) ==
    LET o1 == [o EXCEPT !.attrs = @ \cup {"s_mod", "serr_mod"},
                        !.s_mod = [i \in 1..Len(o.w) |-> 0],
                        !.serr_mod = [i \in 1..Len(o.w) |-> 0]]
    IN  IF o.num_refs > 0 /\ ~SameShape(o1.s_mod, o.s_refs[1][1])
            THEN [self |-> o1, exc |-> "ValueError"]
        ELSE LET o2 == [o1 EXCEPT !.s_mod = WeightedSum(o, params, 1, o.num_refs),
                                  !.serr_mod = WeightedSum(o, params, 2, o.num_refs)]
             IN  FitContinuum(o2)

\* self.create_model(params): the method of the instance's class
create_model(o, params) ==
    IF o.kind = "Match" THEN Match_create_model(o, params)
    ELSE MatchLincomb_create_model(o, params)

(***************************************************************************)
(* Residuals between the target and the stored model, as objective and     *)
(* best_residuals compute them.                                            *)
(***************************************************************************)
Residuals(o) ==
    IF o.mode = "normalized"
    THEN LET num == Sub(o.s_targ, o.s_mod)
             den == Arr([i \in 1..Len(o.serr_targ) |->
                        Sqrt(o.serr_targ[i] * o.serr_targ[i] + o.serr_mod[i] * o.serr_mod[i])])
         IN  Div(num, den)
    ELSE Sub(o.s_targ, o.s_mod)

(***************************************************************************)
(* objective.  Each returns [self, ret]: the instance afterwards and the   *)
(* outcome of the call.                                                    *)
(***************************************************************************)
\* an objective that records its chi-square as the best one
Match_objective_of_storing(m) ==
    IF m.exc # "" THEN [self |-> m.self, ret |-> Raise("objective", m.exc)]
    ELSE [self |-> [m.self EXCEPT !.best_chisq = Scalar(SumSeq(Squares(Residuals(m.self))))],
          ret |-> IF m.self.opt = "lm" THEN Ok("objective", Array(Residuals(m.self)))
                  ELSE Ok("objective", Scalar(SumSeq(Squares(Residuals(m.self)))))]

\* Match.objective once create_model has returned m
Match_objective_of(m) ==
    IF m.exc # "" THEN [self |-> m.self, ret |-> Raise("objective", m.exc)]
    ELSE [self |-> m.self,
          ret |-> IF m.self.opt = "lm" THEN Ok("objective", Array(Residuals(m.self)))
                  ELSE IF m.self.opt = "nelder"
                      THEN Ok("objective", Scalar(SumSeq(Squares(Residuals(m.self)))))
                  ELSE Ok("objective", None)]

Match_objective(o, params) == Match_objective_of(create_model(o, params))

\* the Gaussian prior on the sum of the coefficients: (sum_coeff-1)**2/(2*WIDTH**2)
Prior(o, params) ==
    LET sum_coeff == SumSeq([i \in 1..o.num_refs |-> Get(params, CoeffName(i - 1)).value])
        d == sum_coeff - CoeffScale
    IN  (d * d * WidthInv * WidthInv) \div (2 * CoeffScale * CoeffScale)

\* MatchLincomb.objective once super().objective has returned base
MatchLincomb_objective_of(o, params, base) ==
    IF base.ret.status = "raise" THEN base
    ELSE IF base.ret.val.shape = "none"
        THEN [self |-> base.self, ret |-> Raise("objective", "TypeError")]
    ELSE [self |-> base.self,
          ret |-> Ok("objective",
                     [shape |-> base.ret.val.shape,
                      data |-> Arr([i \in 1..Len(base.ret.val.data) |->
                                       base.ret.val.data[i] + Prior(o, params)])])]

MatchLincomb_objective(o, params) ==
    MatchLincomb_objective_of(o, params, Match_objective(o, params))

\* self.objective(params): the method of the instance's class
objective(o, params) ==
    IF o.kind = "Match" THEN Match_objective(o, params)
    ELSE MatchLincomb_objective(o, params)

(***************************************************************************)
(* Match.best_residuals (inherited by MatchLincomb)                        *)
(***************************************************************************)
\* a best_residuals that takes a missing model for an empty one
best_residuals_lenient(o) ==
    IF "s_mod" \notin o.attrs THEN Ok("best_residuals", Array(o.s_targ))
    ELSE IF ~SameShape(o.s_targ, o.s_mod) THEN Raise("best_residuals", "ValueError")
    ELSE Ok("best_residuals", Array(Residuals(o)))

best_residuals(o) ==
    IF "s_mod" \notin o.attrs \/ (o.mode = "normalized" /\ "serr_mod" \notin o.attrs)
        THEN Raise("best_residuals", "AttributeError")
    ELSE IF ~SameShape(o.s_targ, o.s_mod) THEN Raise("best_residuals", "ValueError")
    ELSE Ok("best_residuals", Array(Residuals(o)))

(***************************************************************************)
(* best_fit.  lmfit.minimize is the external optimizer: it evaluates the   *)
(* objective at trial parameters and ends with `out`, the final parameters *)
(* (within their bounds) and a convergence flag out.success.  The part of  *)
(* best_fit before the optimizer builds the starting parameters; the part  *)
(* after it records the result.                                            *)
(***************************************************************************)
\* Match.best_fit, up to the optimizer: arg is the caller's argument,
\* [given |-> FALSE] for None
Match_best_fit_params(arg) ==
    LET params == IF arg.given THEN arg.params ELSE NoParams
    IN  Add(params, "vsini", VsiniInit, TRUE, TRUE, VsiniMin, VsiniMax)

RECURSIVE AddCoeffs(_, _, _)
AddCoeffs(params, num_refs, n) ==
    IF n = 0 THEN params
    ELSE Add(AddCoeffs(params, num_refs, n - 1), CoeffName(n - 1),
             CoeffScale \div num_refs, TRUE, TRUE, 0, CoeffScale)

MatchLincomb_add_lincomb_params(o, params) ==
    AddCoeffs(Add(params, "num_refs", o.num_refs, FALSE, FALSE, 0, 0), o.num_refs, o.num_refs)

\* the method argument best_fit hands to lmfit.minimize
Match_method(o) == IF o.opt = "lm" THEN "leastsq" ELSE IF o.opt = "nelder" THEN "nelder" ELSE "none"

MatchLincomb_method(o) == "nelder"

\* a best_fit that sums the residuals of the least-squares objective unsquared
Match_best_fit_record_unsquared(o, out, r) ==
    IF r.ret.status = "raise" THEN [self |-> r.self, ret |-> Raise("best_fit", r.ret.exc)]
    ELSE [self |-> [r.self EXCEPT
                       !.best_chisq = IF o.opt = "lm" THEN Scalar(SumSeq(r.ret.val.data))
                                      ELSE r.ret.val,
                       !.best_params = out.params],
          ret |-> Ok("best_fit", IF o.opt = "lm" THEN Scalar(SumSeq(r.ret.val.data))
                                 ELSE r.ret.val)]

\* Match.best_fit, after the optimizer has returned out and the objective has been
\* evaluated at out.params with result r
Match_best_fit_record(o, out, r) ==
    IF r.ret.status = "raise" THEN [self |-> r.self, ret |-> Raise("best_fit", r.ret.exc)]
    ELSE [self |-> [r.self EXCEPT
                       !.best_chisq = IF o.opt = "lm"
                                      THEN Scalar(SumSeq(Squares(r.ret.val.data)))
                                      ELSE r.ret.val,
                       !.best_params = out.params],
          ret |-> Ok("best_fit", IF o.opt = "lm"
                                 THEN Scalar(SumSeq(Squares(r.ret.val.data)))
                                 ELSE r.ret.val)]

\* a best_fit that reports a run that did not converge
Match_best_fit_finish_checked(o, out) ==
    IF ~out.success THEN [self |-> o, ret |-> Raise("best_fit", "OptimizerNonConvergence")]
    ELSE Match_best_fit_record(o, out, objective(o, out.params))

\* a best_fit that takes the chi-square of the model the optimizer left behind
\* instead of evaluating the objective at out.params
Match_best_fit_finish_no_reeval(o, out) ==
    [self |-> [o EXCEPT !.best_chisq = Scalar(SumSeq(Squares(Residuals(o)))),
                        !.best_params = out.params],
     ret |-> Ok("best_fit", Scalar(SumSeq(Squares(Residuals(o)))))]

\* Match.best_fit, after the optimizer has returned out
Match_best_fit_finish(o, out) ==
    IF o.opt \notin {"lm", "nelder"}
        THEN [self |-> o, ret |-> Raise("best_fit", "UnboundLocalError")]
    ELSE Match_best_fit_record(o, out, objective(o, out.params))

\* MatchLincomb.best_fit, after best_params has been set and the objective has been
\* evaluated at it with result r
MatchLincomb_best_fit_record(r) ==
    IF r.ret.status = "raise" THEN [self |-> r.self, ret |-> Raise("best_fit", r.ret.exc)]
    ELSE [self |-> [r.self EXCEPT !.best_chisq = r.ret.val],
          ret |-> Ok("best_fit", r.ret.val)]

\* MatchLincomb.best_fit, after the optimizer has returned out
MatchLincomb_best_fit_finish(o, out) ==
    MatchLincomb_best_fit_record(
        objective([o EXCEPT !.best_params = out.params], out.params))

best_fit_finish(o, out) ==
    IF o.kind = "Match" THEN Match_best_fit_finish(o, out)
    ELSE MatchLincomb_best_fit_finish(o, out)

(***************************************************************************)
(* Inputs of the model.                                                    *)
(***************************************************************************)
GridStart == 5000 * 100     \* 5000 Angstrom, in units of 0.01 Angstrom

\* strictly increasing wavelength grids: shape 1 is uniform, shape 2 widens
Grid(n, shape) ==
    [i \in 1..n |-> IF shape = 1 THEN GridStart + 2 * (i - 1)
                    ELSE GridStart + i * (i - 1) + (i - 1)]

GridLens == (num_knots + 1)..MaxLen

Grids == {Grid(n, shape) : n \in GridLens, shape \in {1, 2}}

\* a target and a reference spectrum of n samples, <<flux, uncertainty>>
Target(n) == <<[i \in 1..n |-> 50 + 10 * (i % 3)], [i \in 1..n |-> 2 + (i % 2)]>>

Reference(n, k) == <<[i \in 1..n |-> 6 + ((i + k) % 4)], [i \in 1..n |-> 1 + (k % 2)]>>

\* the spectra handed to a constructor with a grid of n samples: of the grid's
\* length, or one sample short
SpecLens(n) == {<<n, n>>, <<n - 1, n>>, <<n, n - 1>>}

Modes == {"default", "normalized"}

Opts == {"lm", "nelder"}

VsiniVals == 0..MaxVsini

MatchConstructions(w) ==
    {Match_init(w, Target(l[1]), Reference(l[2], 1), mode, opt) :
        l \in SpecLens(Len(w)), mode \in Modes, opt \in Opts}

LincombConstructions(w) ==
    {MatchLincomb_init(w, Target(l[1]),
                       [k \in 1..nrefs |-> Reference(l[2], k)],
                       [k \in 1..nrefs |-> k % (MaxVsini + 1)], mode, opt) :
        l \in SpecLens(Len(w)), nrefs \in 1..MaxRefs, mode \in Modes, opt \in Opts}

Constructions == UNION {MatchConstructions(w) \cup LincombConstructions(w) : w \in Grids}

\* parameter values the caller and the optimizer try: every varying parameter
\* within its bounds
TrialCoeffs(n) ==
    {[k \in 1..n |-> CoeffScale \div n],
     [k \in 1..n |-> IF k = 1 THEN CoeffScale ELSE 0],
     [k \in 1..n |-> CoeffScale]}

RECURSIVE SetCoeffs(_, _, _)
SetCoeffs(params, c, n) ==
    IF n = 0 THEN params
    ELSE SetValue(SetCoeffs(params, c, n - 1), CoeffName(n - 1), c[n])

InBounds(params) == \A e \in params : e.bounded => (e.min <= e.value /\ e.value <= e.max)

Trials(o, init) ==
    {q \in (IF o.kind = "Match"
            THEN {SetValue(init, "vsini", v) : v \in VsiniVals}
            ELSE {SetCoeffs(init, c, o.num_refs) : c \in TrialCoeffs(o.num_refs)}) :
        InBounds(q)}

\* the parameters best_fit hands to lmfit.minimize
best_fit_params(o, arg) ==
    IF o.kind = "Match" THEN Match_best_fit_params(arg)
    ELSE MatchLincomb_add_lincomb_params(o, NoParams)

\* the parameters a caller passes to objective and create_model: those of best_fit
DefaultParams(o) == best_fit_params(o, [given |-> FALSE, params |-> NoParams])

\* what a caller may pass to Match.best_fit: None, or parameters with a vsini of
\* its own choice
FitArgs ==
    {[given |-> FALSE, params |-> NoParams]} \cup
    {[given |-> TRUE, params |-> Add(NoParams, "vsini", v, TRUE, TRUE, VsiniMin, VsiniMax)] :
        v \in VsiniVals}

NoArg == [given |-> FALSE, params |-> NoParams]

NoRun == [state |-> "none", method |-> "", arg |-> NoArg, init |-> NoParams,
          evaluated |-> FALSE, out |-> NoParams, success |-> FALSE]

(***************************************************************************)
(* The state machine: a caller holding one instance, calling its methods   *)
(* one at a time.                                                          *)
(***************************************************************************)
Init ==
    \E c \in Constructions :
        /\ self = c.self
        /\ ret = c.ret
        /\ pc = IF c.ret.status = "ok" THEN "idle" ELSE "failed"
        /\ run = NoRun
        /\ hist = [evaluated |-> FALSE, fitted |-> FALSE]

\* a call with parameters params returns: r is [self, ret], the instance afterwards
\* and the outcome
Returns(r, params) == self' = r.self /\ ret' = [r.ret EXCEPT !.args = params]

CreateModelCall(m) ==
    [self |-> m.self,
     ret |-> IF m.exc = "" THEN Ok("create_model", None) ELSE Raise("create_model", m.exc)]

CallCreateModel ==
    /\ pc = "idle"
    /\ \E params \in Trials(self, DefaultParams(self)) :
        Returns(CreateModelCall(create_model(self, params)), params)
    /\ hist' = [hist EXCEPT !.evaluated = TRUE]
    /\ run' = NoRun
    /\ UNCHANGED pc

CallObjective ==
    /\ pc = "idle"
    /\ \E params \in Trials(self, DefaultParams(self)) :
        Returns(objective(self, params), params)
    /\ hist' = [hist EXCEPT !.evaluated = TRUE]
    /\ run' = NoRun
    /\ UNCHANGED pc

CallBestResiduals ==
    /\ pc = "idle"
    /\ ret' = best_residuals(self)
    /\ run' = NoRun
    /\ UNCHANGED <<self, pc, hist>>

\* best_fit is called: the starting parameters are built and handed to lmfit.minimize
BestFitStart ==
    /\ pc = "idle"
    /\ \E arg \in IF self.kind = "Match" THEN FitArgs ELSE {NoArg} :
        run' = [state |-> "running",
                method |-> IF self.kind = "Match" THEN Match_method(self)
                           ELSE MatchLincomb_method(self),
                arg |-> arg,
                init |-> best_fit_params(self, arg),
                evaluated |-> FALSE, out |-> NoParams, success |-> FALSE]
    /\ pc' = "fit"
    /\ hist' = [hist EXCEPT !.evaluated = TRUE]
    /\ UNCHANGED <<self, ret>>

\* the outcome r of an objective evaluation inside the optimizer: an exception
\* ends best_fit, otherwise the optimizer goes on.  run.arg, the argument best_fit
\* was called with, is kept until the optimizer's first evaluation.
Evaluated(r) ==
    /\ self' = r.self
    /\ IF r.ret.status = "raise"
       THEN /\ pc' = "idle"
            /\ ret' = Raise("best_fit", r.ret.exc)
            /\ run' = [run EXCEPT !.state = "raised", !.evaluated = TRUE, !.arg = NoArg]
       ELSE /\ pc' = "fit"
            /\ ret' = ret
            /\ run' = [run EXCEPT !.evaluated = TRUE, !.arg = NoArg]

\* the optimizer evaluates the objective: at the starting parameters first, then
\* at trial parameters of its choice
OptimizerEval ==
    /\ pc = "fit"
    /\ \E trial \in IF run.evaluated THEN Trials(self, run.init) ELSE {run.init} :
        Evaluated(objective(self, trial))
    /\ UNCHANGED hist

\* the optimizer returns out (converged or not) and best_fit records the result
BestFitFinish ==
    /\ pc = "fit"
    /\ run.evaluated
    /\ \E params \in Trials(self, run.init), success \in BOOLEAN :
        /\ Returns(best_fit_finish(self, [params |-> params, success |-> success]),
                   NoParams)
        /\ run' = [run EXCEPT !.state = "done", !.out = params, !.success = success]
    /\ pc' = "idle"
    /\ hist' = [hist EXCEPT !.fitted = TRUE]

Next ==
    \/ CallCreateModel
    \/ CallObjective
    \/ CallBestResiduals
    \/ BestFitStart
    \/ OptimizerEval
    \/ BestFitFinish

Spec == Init /\ [][Next]_vars

(***************************************************************************)
(* Properties.                                                             *)
(***************************************************************************)
\* the instance as its constructor left it: the same data, no model, no fit result
Fresh(o) ==
    [o EXCEPT !.attrs = @ \ {"s_mod", "serr_mod", "spl"},
              !.s_mod = <<>>, !.serr_mod = <<>>, !.spl = <<>>,
              !.best_params = NoParams, !.best_chisq = NaN]

\* the sum of squared residuals of the model that params give on a fresh instance
ChiSquareAt(o, params) ==
    SumSeq(Squares(Residuals(create_model(Fresh(o), params).self)))

\* the data fixed at construction
Data(o) == <<o.kind, o.w, o.s_targ, o.serr_targ, o.s_ref, o.serr_ref, o.num_refs,
             o.s_refs, o.knot_x, o.mode, o.opt>>

Model(o) == <<o.s_mod, o.serr_mod, o.spl>>

OtherOpt(o) == [o EXCEPT !.opt = IF @ = "lm" THEN "nelder" ELSE "lm"]

\* C1 (as claimed): whatever opt a MatchLincomb was constructed with, objective
\* returns one scalar, the base chi-square plus the prior, and best_fit minimizes
\* with Nelder-Mead.
C1_LincombObjectiveScalar ==
    self.kind = "MatchLincomb" =>
        /\ pc = "fit" => run.method = "nelder"
        /\ (ret.op = "objective" /\ ret.status = "ok") =>
              ret.val = Scalar(ChiSquareAt(self, ret.args) + Prior(self, ret.args))

\* C2 (as claimed): a best_fit whose optimizer run ended without converging
\* reports an error to the caller and returns no chi-square.
C2_NonConvergenceReported ==
    (ret.op = "best_fit" /\ run.state = "done" /\ ~run.success) => ret.status = "raise"

\* C2 (amended): best_fit does not look at the convergence flag: after a run that
\* did not converge it returns normally, with the optimizer's final parameters as
\* best_params and the chi-square it returns stored as best_chisq.
C2_NonConvergenceAccepted ==
    (ret.op = "best_fit" /\ run.state = "done" /\ ~run.success) =>
        /\ ret.status = "ok"
        /\ self.best_params = run.out
        /\ self.best_chisq = ret.val
        /\ ret.val.shape # "nan"

C2_Witness ==
    /\ ret.op = "best_fit" /\ ret.status = "ok"
    /\ run.state = "done" /\ ~run.success
    /\ self.best_params = run.out

KnotsInterior(o) ==
    /\ Len(o.knot_x) = num_knots
    /\ \A j \in 1..(num_knots - 1) : o.knot_x[j] < o.knot_x[j + 1]
    /\ o.w[1] < o.knot_x[1]
    /\ o.knot_x[num_knots] < o.w[Len(o.w)]

\* C3 (as claimed): for a grid of at least 6 samples the 5 knots increase strictly
\* and lie strictly between the first and the last grid sample.
C3_KnotsInteriorFromSix == Len(self.w) >= num_knots + 1 => KnotsInterior(self)

\* C3 (amended): for a grid of at least 7 samples the 5 knots increase strictly and
\* lie strictly between the first and the last grid sample.
C3_KnotsInteriorFromSeven == Len(self.w) >= num_knots + 2 => KnotsInterior(self)

C3_Witness ==
    /\ ret.op = "__init__"
    /\ self.kind = "MatchLincomb"
    /\ Len(self.w) >= num_knots + 2
    /\ KnotsInterior(self)

\* some spectrum handed to the constructor differs in length from the grid
Mismatched(o) ==
    \/ Len(o.s_targ) # Len(o.w)
    \/ Len(o.serr_targ) # Len(o.w)
    \/ o.kind = "Match" /\ (Len(o.s_ref) # Len(o.w) \/ Len(o.serr_ref) # Len(o.w))
    \/ o.kind = "MatchLincomb" /\
          \E k \in 1..o.num_refs :
              Len(o.s_refs[k][1]) # Len(o.w) \/ Len(o.s_refs[k][2]) # Len(o.w)

\* C4 (as claimed): no match object exists whose target or reference differs in
\* length from its grid: construction fails instead.
C4_NoMismatchedObject == ~(self.kind # "none" /\ Mismatched(self))

\* C4 (amended): construction compares no lengths: it returns normally and yields
\* a match object, also when a target or reference differs in length from the grid.
C4_ConstructionUnchecked ==
    ret.op = "__init__" =>
        /\ ret.status = "ok"
        /\ self.kind \in {"Match", "MatchLincomb"}
        /\ pc # "failed"

C4_Witness ==
    /\ ret.op = "__init__" /\ ret.status = "ok"
    /\ self.kind = "Match"
    /\ Len(self.s_targ) # Len(self.w)

\* C5: as long as neither create_model, objective nor best_fit has been called, the
\* instance has no model attributes and best_residuals raises.
C5_NoModelBeforeEvaluation ==
    ~hist.evaluated =>
        /\ self.attrs \cap {"s_mod", "serr_mod", "spl"} = {}
        /\ ret.op = "best_residuals" => (ret.status = "raise" /\ ret.exc = "AttributeError")

C5_Witness == ~hist.evaluated /\ ret.op = "best_residuals" /\ ret.status = "raise"

\* Match.best_fit has just returned normally: no other call has been made since
MatchFitted ==
    self.kind = "Match" /\ pc = "idle" /\ ret.op = "best_fit" /\ ret.status = "ok"
        /\ run.state = "done"

\* C6: when Match.best_fit has returned, best_params are the optimizer's final
\* parameters, the returned value is the stored best_chisq, best_chisq is the sum of
\* squared residuals of the model at best_params, and the other optimizer kind
\* records the same best_chisq for these parameters.
C6_BestChisqIsSumOfSquares ==
    MatchFitted =>
        /\ self.best_params = run.out
        /\ ret.val = self.best_chisq
        /\ self.best_chisq = Scalar(ChiSquareAt(self, self.best_params))
        /\ self.best_chisq =
              Match_best_fit_finish(OtherOpt(Fresh(self)),
                                    [params |-> self.best_params, success |-> TRUE]
                                   ).self.best_chisq

C6_Witness ==
    /\ MatchFitted
    /\ self.opt = "lm" /\ self.mode = "normalized"
    /\ ret.val.shape = "scalar" /\ ret.val.data[1] > 0

\* C7: until a best_fit call has recorded a result, best_chisq is NaN and
\* best_params is empty, and no step other than the end of best_fit changes them.
C7_OnlyBestFitSetsResult ==
    /\ [](~hist.fitted => (self.best_chisq = NaN /\ self.best_params = NoParams))
    /\ [][(self.best_chisq' # self.best_chisq \/ self.best_params' # self.best_params)
            => (pc = "fit" /\ pc' = "idle" /\ ret'.op = "best_fit")]_vars

C7_Witness ==
    /\ ~hist.fitted
    /\ ret.op = "objective" /\ ret.status = "ok"
    /\ pc = "fit" /\ run.evaluated

\* C8: the outcome of an objective call is the outcome of the same call on a fresh
\* instance of the same data, whatever was evaluated before; the call leaves the
\* model of its parameters behind, and no step changes the data fixed at
\* construction.
C8_ObjectiveDependsOnParamsOnly ==
    /\ [](ret.op = "objective" =>
            /\ [objective(Fresh(self), ret.args).ret EXCEPT !.args = ret.args] = ret
            /\ (pc = "idle" =>
                  Model(self) = Model(objective(Fresh(self), ret.args).self)))
    /\ [][Data(self)' = Data(self)]_vars

C8_Witness ==
    /\ ret.op = "objective" /\ ret.status = "ok" /\ pc = "idle"
    /\ hist.fitted
    /\ ret.args # self.best_params

\* C9 (as claimed): Match.best_fit starts the optimizer from the caller's vsini
\* when parameters with a vsini are passed, and from vsini = 1.0 within [0, 10]
\* when none are passed.
C9_StartsFromCallerValue ==
    (self.kind = "Match" /\ pc = "fit" /\ ~run.evaluated) =>
        IF run.arg.given
        THEN Get(run.init, "vsini").value = Get(run.arg.params, "vsini").value
        ELSE Get(run.init, "vsini") =
                [name |-> "vsini", value |-> VsiniInit, vary |-> TRUE, bounded |-> TRUE,
                 min |-> VsiniMin, max |-> VsiniMax]

====
